---- MODULE Spec2Model ----
(***************************************************************************)
(* Model of the RAG evaluation orchestrator: the direct-LLM batch          *)
(* evaluation with retry and per-case fallback (rag_evaluator.py), the     *)
(* result labelling of the web and single-test evaluators, the             *)
(* individual-metric evaluator, the six-in-one LangChain evaluator and     *)
(* the serverless per-metric evaluator with its model rotation.            *)
(*                                                                         *)
(* Scores are fixed-point numbers in thousandths: 1000 stands for 1.0.     *)
(* An overall score is an exact fraction [num, den]; den = 0 is NaN.       *)
(***************************************************************************)
EXTENDS Integers, Sequences, FiniteSets, TLC

\* ---------------------------------------------------------------- bounds
MaxCases == 2

\* calls of get_next_model on one rotator
MaxCalls == 8

\* test cases per category of the dataset (5 in create_test_dataset)
CasesPerCategory == 1

\* ------------------------------------------------------- program constants
max_retries == 3
BackoffBase == 25
BackoffStep == 15
AllZeroLen == 7
MinParsed == 3

One == 1000
\* float('nan'): compares false with everything
NaN == -1000000

GroqMetrics ==
  {"context_precision", "context_recall", "context_relevancy",
   "answer_relevancy", "faithfulness", "answer_correctness"}

ContextMetrics == {"context_precision", "context_recall", "context_relevancy"}

\* self.criteria of the individual-metric evaluator, in dict order
CriteriaOrder ==
  <<"relevance", "coherence", "factual_accuracy", "completeness",
    "context_usage", "professional_tone">>

Criteria == {CriteriaOrder[k] : k \in 1..Len(CriteriaOrder)}

\* -------------------------------------------------------- Python helpers
\* min(a, b) of Python: b only when b < a; a comparison with NaN is False
PyMin(a, b) == IF a # NaN /\ b # NaN /\ b < a THEN b ELSE a

\* max(a, b) of Python: b only when b > a
PyMax(a, b) == IF a # NaN /\ b # NaN /\ b > a THEN b ELSE a

\* s > 0 of Python on floats
PyPositive(s) == s # NaN /\ s > 0

RECURSIVE SumOver(_, _)
SumOver(f, S) ==
  IF S = {} THEN 0
  ELSE LET k == CHOOSE x \in S : TRUE IN f[k] + SumOver(f, S \ {k})

\* ---------------------------------------------------------- JSON values
\* a JSON value of an LLM reply: a number (v in thousandths), NaN, a
\* non-numeric string, or null
Num(v) == [t |-> "num", v |-> v]
JNaN == [t |-> "nan", v |-> 0]
JStr == [t |-> "str", v |-> 0]
JNull == [t |-> "null", v |-> 0]
\* digits and dots that are no number, such as 1.2.3 (never valid JSON)
JBadNum == [t |-> "badnum", v |-> 0]

\* a string with an identity: the feedback text of a reply
JText(id) == [t |-> "str", v |-> id]

\* a feedback text the evaluator wrote itself
Generated == [t |-> "generated", v |-> 0]

\* isinstance(score, (int, float))
IsNumeric(j) == j.t \in {"num", "nan"}

\* float(score) of a numeric JSON value
ToFloat(j) == IF j.t = "nan" THEN NaN ELSE j.v

EmptyObj == [k \in {} |-> JNull]

\* An LLM reply text: its shape and the JSON object written in it.
\*   json   - the text is exactly one flat JSON object
\*   fenced - a flat JSON object inside prose or a markdown fence
\*   prose  - no braces at all
\*   broken - braces whose content is not valid JSON
\*   bare   - "key": value pairs without any braces
\*   value  - valid JSON that is no object (a number, a list, a string)
\*   empty  - the empty string
\*   json_braces - one flat JSON object whose feedback string has braces
Reply(shape, obj) == [shape |-> shape, obj |-> obj]

SixOf(v) == [m \in GroqMetrics |-> Num(v)]

GroqValid ==
  [m \in GroqMetrics |->
     IF m \in ContextMetrics THEN Num(800) ELSE Num(600)]

GroqOutOfRange ==
  [m \in GroqMetrics |->
     IF m \in ContextMetrics THEN Num(1500) ELSE Num(-200)]

GroqSevenZeros ==
  [m \in GroqMetrics \cup {"overall"} |-> Num(0)]

GroqTwo == [m \in {"faithfulness", "answer_relevancy"} |-> Num(900)]

GroqThree ==
  [m \in {"faithfulness", "answer_relevancy", "context_recall"} |-> Num(300)]

GroqStrings == [m \in GroqMetrics |-> JStr]

GroqWithNaN ==
  [m \in GroqMetrics |-> IF m = "faithfulness" THEN JNaN ELSE Num(400)]

\* the replies the LLM stub can give to the six-in-one prompt
GroqReplies ==
  { Reply("json", GroqValid), Reply("json", SixOf(0)),
    Reply("json", GroqSevenZeros), Reply("fenced", GroqOutOfRange),
    Reply("json", GroqTwo), Reply("fenced", GroqThree),
    Reply("json", GroqStrings), Reply("json", GroqWithNaN),
    Reply("prose", EmptyObj), Reply("broken", GroqValid) }

\* the replies the LLM stub gives inside a batch of several cases
GroqLoopReplies ==
  { Reply("json", GroqValid), Reply("prose", EmptyObj) }

NoReply == Reply("none", EmptyObj)

\* --------------------------------------------------------- random draws
\* random.random(), as the two ends of [0, 1) after rounding to 3 places
RandVals == {0, 1000}

\* one draw per metric
RandDraws ==
  { [m \in GroqMetrics |-> 0], [m \in GroqMetrics |-> 1000],
    [m \in GroqMetrics |-> IF m \in ContextMetrics THEN 0 ELSE 1000] }

\* -------------------------------------------------------- RAG answers
\* what query_rag_system returned for a case, as the word counts the
\* evaluation reads: a long answer with context, an empty answer, and the
\* error string of a non-200 status with no contexts
\* ok is FALSE for the answer built from a failed query
RagResults ==
  { [answer_length |-> 120, context_length |-> 60, ok |-> TRUE],
    [answer_length |-> 0, context_length |-> 0, ok |-> TRUE],
    [answer_length |-> 2, context_length |-> 0, ok |-> FALSE] }

NoRag == [answer_length |-> 0, context_length |-> 0, ok |-> TRUE]

\* the inputs of the k-th run of a batch: the two runs of the first test
\* case take every answer, draw and reply, the runs of the later test
\* cases one answer, one draw and the valid reply
CaseRags(k) ==
  IF k <= 2 THEN RagResults
  ELSE {[answer_length |-> 120, context_length |-> 60, ok |-> TRUE]}

CaseRands(k) == IF k <= 2 THEN RandVals ELSE {0}

CaseDraws(k) == IF k <= 2 THEN RandDraws ELSE {[m \in GroqMetrics |-> 0]}

CaseReplies(k) ==
  IF k <= 2 THEN GroqLoopReplies ELSE {Reply("json", GroqValid)}

\* ------------------------------------------- rag_evaluator.py: scoring
\* wait_time = 25 + (retry_count * 15), computed after retry_count += 1
WaitTime(rc) == BackoffBase + (rc * BackoffStep)

\* a variant that takes every error for a rate limit
IsRateLimitAny(err) == TRUE

\* '429' in error_msg or 'rate_limit_exceeded' in error_msg
IsRateLimit(err) == err = "rate_limit"

\* the result dict a case starts with: base_score in 0.45..0.55 and one
\* draw of +-0.025 per metric
DefaultScores(rb, d) ==
  [m \in GroqMetrics |-> (500 + ((rb - 500) \div 10)) + ((d[m] - 500) \div 20)]

\* the three regular-expression patterns followed by json.loads: the object
\* of the text when one is found and parses, an empty value otherwise
GroqExtract(text) ==
  IF text.shape \in {"json", "fenced"} THEN text.obj ELSE EmptyObj

NumericKeys(es) == {k \in DOMAIN es : IsNumeric(es[k])}

\* len(all_scores) == 7 and sum(all_scores) == 0.0
AllZero(es) ==
  /\ Cardinality(NumericKeys(es)) = AllZeroLen
  /\ \A k \in NumericKeys(es) : es[k].t = "num"
  /\ SumOver([k \in NumericKeys(es) |-> es[k].v], NumericKeys(es)) = 0

\* the metrics of the reply that overwrite the result
UpdatedKeys(es) == NumericKeys(es) \cap GroqMetrics

\* score_val = max(0.1, min(1.0, float(score)))
GroqClamp(x) == PyMax(100, PyMin(One, x))

GroqUpdate(res, es) ==
  [m \in GroqMetrics |->
     IF m \in UpdatedKeys(es) THEN GroqClamp(ToFloat(es[m])) ELSE res[m]]

\* success of the parse: a usable object that is not all zeros and that
\* sets at least 3 metrics
GroqSuccess(es) ==
  /\ es # EmptyObj
  /\ ~AllZero(es)
  /\ Cardinality(UpdatedKeys(es)) >= MinParsed

\* the content-based fallback of a case whose reply could not be used
HeuristicScores(rag, d) ==
  LET base_score == 300 + (PyMin(rag.answer_length, 100) * 5)
      context_score == 300 + (PyMin(rag.context_length, 50) * 10)
      raw(m) ==
        IF m \in ContextMetrics
          THEN PyMax(200, context_score + (((d[m] - 500) * 3) \div 10))
        ELSE IF m = "answer_correctness"
          THEN PyMax(200, base_score + (((d[m] - 500) * 4) \div 10))
        ELSE PyMax(300, base_score + (((d[m] - 500) * 3) \div 10))
  IN [m \in GroqMetrics |-> PyMax(200, PyMin(900, raw(m)))]

\* --------------------------------------------------- overall score
Frac(num, den) == [num |-> num, den |-> den]

Positive(scores) == {m \in DOMAIN scores : PyPositive(scores[m])}

\* sum(s for s in xs if s > 0) / len([s for s in xs if s > 0])
\*   if any(s > 0 for s in xs) else 0.0
WebOverall(scores) ==
  IF Positive(scores) # {}
    THEN Frac(SumOver(scores, Positive(scores)), Cardinality(Positive(scores)))
    ELSE Frac(0, 1)

\* scores.get("evaluation_method", "groq")
WebMethod(scores) ==
  IF "evaluation_method" \in DOMAIN scores
    THEN scores["evaluation_method"] ELSE "groq"

\* Python's None in the place of a score
None == -2000000

\* scores.get(m, 0.0) for the six metrics of the batch evaluation
WebBase(scores) ==
  [m \in GroqMetrics |-> IF m \in DOMAIN scores THEN scores[m] ELSE 0]

\* a variant that reports a missing criterion as 0.0 for every method
WebIndividualZero(scores, method) ==
  [c \in Criteria |-> IF c \in DOMAIN scores THEN scores[c] ELSE 0]

\* the six criteria of a result: scores.get(c, 0.0) for the methods that
\* have them, None for the others
WebIndividual(scores, method) ==
  [c \in Criteria |->
     IF method \in {"individual_metrics", "langchain"}
       THEN (IF c \in DOMAIN scores THEN scores[c] ELSE 0)
       ELSE None]

\* the categories of the test dataset, in its order
Categories ==
  <<"personal", "experience", "skills", "projects", "education", "behaviour">>

\* the category of the k-th run of a batch: every test case runs twice
CategoryOf(k) ==
  Categories[((((k - 1) \div 2) \div CasesPerCategory) % Len(Categories)) + 1]

\* an overall score in sixtieths of a thousandth: its denominator is the
\* number of positive scores, 1 to 6
Scaled(f) == f.num * (60 \div f.den)

\* create_summary: the means over the results of a batch
create_summary(rd) ==
  LET idx == 1..Len(rd)
      total_cases == Len(rd)
      overall == [k \in idx |-> Scaled(rd[k].overall_score)]
      cats == {rd[k].category : k \in idx}
      inCat(c) == {k \in idx : rd[k].category = c}
      has_individual_metrics == \E k \in idx : rd[k].individual["relevance"] # None
      valid(c) == {k \in idx : rd[k].individual[c] # None}
      base_metrics ==
        [m \in GroqMetrics |->
           Frac(SumOver([k \in idx |-> rd[k].scores[m]], idx), total_cases)]
      individual ==
        [c \in {x \in Criteria : has_individual_metrics /\ valid(x) # {}} |->
           Frac(SumOver([k \in idx |-> rd[k].individual[c]], valid(c)),
                Cardinality(valid(c)))]
  IN [total_cases |-> total_cases,
      avg_overall_score |-> Frac(SumOver(overall, idx), 60 * total_cases),
      category_averages |->
        [c \in cats |-> Frac(SumOver(overall, inCat(c)), 60 * Cardinality(inCat(c)))],
      metrics |-> individual @@ base_metrics]

\* ---------------------------------- individual_metric_evaluator.py
\* a result of re.search(r'"<key>":\s*([0-9.]+)', text)
NoMatch == [kind |-> "nomatch", v |-> 0]
BadMatch == [kind |-> "bad", v |-> 0]
Match(v) == [kind |-> "match", v |-> v]

\* the digits after "<key>": in the text; a sign, a quote or a letter there
\* stops the pattern from matching
RegexNumber(text, key) ==
  IF /\ text.shape \in {"json", "fenced", "broken", "bare", "json_braces"}
     /\ key \in DOMAIN text.obj
    THEN IF text.obj[key].t = "num" /\ text.obj[key].v >= 0
           THEN Match(text.obj[key].v)
         ELSE IF text.obj[key].t = "badnum" THEN BadMatch
         ELSE NoMatch
    ELSE NoMatch

\* the three JSON patterns: the first object that parses and holds the
\* metric or a feedback
IndExtract(m, text) ==
  IF /\ text.shape \in {"json", "fenced"}
     /\ (m \in DOMAIN text.obj \/ "feedback" \in DOMAIN text.obj)
    THEN text.obj ELSE EmptyObj

\* score = max(0.0, min(1.0, score))
Clamp01(x) == PyMax(0, PyMin(One, x))

MetricResult(score, status) == [score |-> score, status |-> status]

\* _evaluate_single_metric once the chain returned text
IndividualParse(m, text) ==
  LET data == IndExtract(m, text)
      rx == RegexNumber(text, m)
  IN IF data # EmptyObj
       THEN IF m \notin DOMAIN data THEN MetricResult(500, "ok")
            ELSE IF IsNumeric(data[m])
              THEN MetricResult(Clamp01(ToFloat(data[m])), "ok")
            ELSE IF data[m].t = "null"
              \* float(None): TypeError, caught by the outer handler
              THEN MetricResult(0, "error")
            \* float("high"): ValueError
            ELSE MetricResult(500, "parse_failed")
     ELSE IF rx.kind = "match" THEN MetricResult(Clamp01(rx.v), "ok")
     \* float("1.2.3") or no evaluation data: ValueError
     ELSE MetricResult(500, "parse_failed")

\* evaluation_data.get('feedback', ...) of a result that was parsed; the
\* regular expression and the handlers write a feedback of their own
IndividualFeedback(m, text) ==
  LET data == IndExtract(m, text) IN
    IF /\ IndividualParse(m, text).status = "ok"
       /\ data # EmptyObj
       /\ "feedback" \in DOMAIN data
      THEN data["feedback"] ELSE Generated

\* a variant whose error result carries the parse-failure score
IndividualErrorHalf == MetricResult(500, "error")

\* except Exception: score=0.0
IndividualError == MetricResult(0, "error")

\* the replies the LLM stub gives inside the loop over the six metrics
LoopReplies(m) ==
  { Reply("json", (m :> Num(730)) @@ ("feedback" :> JStr)),
    Reply("fenced", (m :> Num(1500)) @@ ("feedback" :> JStr)),
    Reply("json", (m :> Num(-200))),
    Reply("prose", EmptyObj) }

\* the replies the LLM stub can give to the prompt of metric m
IndReplies(m) ==
  { Reply("json", (m :> Num(730)) @@ ("feedback" :> JStr)),
    Reply("fenced", (m :> Num(1500)) @@ ("feedback" :> JStr)),
    Reply("json", (m :> Num(-200))),
    Reply("json", ("feedback" :> JStr)),
    Reply("json", (m :> JNull)),
    Reply("json", (m :> JStr)),
    Reply("json", (m :> JNaN)),
    Reply("json", ("other" :> Num(100))),
    Reply("broken", (m :> Num(800))),
    Reply("broken", (m :> JBadNum)),
    Reply("prose", EmptyObj),
    Reply("json", (m :> Num(0)) @@ ("feedback" :> JText(1))),
    Reply("json", (m :> Num(One)) @@ ("feedback" :> JText(1))),
    Reply("json_braces", (m :> Num(730)) @@ ("feedback" :> JText(2))),
    Reply("value", EmptyObj),
    Reply("empty", EmptyObj) }

ScoresOf(results) == [m \in DOMAIN results |-> results[m].score]

\* valid_scores = [r.score for r in ... if r.score > 0.0]
\* overall_score = sum(valid_scores) / len(valid_scores) if valid_scores else 0.0
IndividualOverall(results) ==
  LET sc == ScoresOf(results) IN
    IF Positive(sc) # {}
      THEN Frac(SumOver(sc, Positive(sc)), Cardinality(Positive(sc)))
      ELSE Frac(0, 1)

\* ------------------------------------------- simple_langchain_evaluator.py
SimpleKeys == Criteria \cup {"overall_score"}

SimpleResult(scores, overall, status) ==
  [scores |-> scores, overall_score |-> overall, status |-> status]

\* default_scores = {criterion: 0.5 ...}, overall_score=0.5
SimpleDefault ==
  SimpleResult([c \in Criteria |-> 500], Frac(500, 1), "parse_failed")

\* error_scores = {criterion: 0.0 ...}, overall_score=0.0
SimpleError == SimpleResult([c \in Criteria |-> 0], Frac(0, 1), "error")

\* the JSON patterns, then the per-key regular expressions
SimpleExtract(text) ==
  IF /\ text.shape \in {"json", "fenced"}
     /\ DOMAIN text.obj \cap {"relevance", "coherence", "overall_score"} # {}
    THEN text.obj
    ELSE [k \in {x \in SimpleKeys : RegexNumber(text, x).kind = "match"} |->
            Num(RegexNumber(text, k).v)]

\* float(evaluation_data.get(criterion, 0.5)), without any clamp
SimpleScore(data, c) == IF c \in DOMAIN data THEN ToFloat(data[c]) ELSE 500

\* float(evaluation_data.get('overall_score', sum(...) / len(...)))
SimpleOverall(data) ==
  LET sc == [c \in Criteria |-> SimpleScore(data, c)] IN
    IF "overall_score" \in DOMAIN data
      THEN IF data["overall_score"].t = "nan" THEN Frac(0, 0)
           ELSE Frac(data["overall_score"].v, 1)
    ELSE IF \E c \in Criteria : sc[c] = NaN THEN Frac(0, 0)
    ELSE Frac(SumOver(sc, Criteria), Cardinality(Criteria))

\* evaluate_response once the chain returned text
SimpleParse(text) ==
  LET data == SimpleExtract(text)
      used == (DOMAIN data) \cap SimpleKeys
  IN IF text.shape # "json" /\ text.shape # "fenced"
        /\ \E k \in SimpleKeys : RegexNumber(text, k).kind = "bad"
       THEN SimpleDefault
     ELSE IF data = EmptyObj THEN SimpleDefault
     ELSE IF \E k \in used : data[k].t = "str" THEN SimpleDefault
     ELSE IF \E k \in used : data[k].t = "null" THEN SimpleError
     ELSE SimpleResult([c \in Criteria |-> SimpleScore(data, c)],
                       SimpleOverall(data), "ok")

SimpleAll(v) == [c \in Criteria |-> Num(v)]

SimpleReplies ==
  { Reply("json", SimpleAll(800)),
    Reply("json", [c \in Criteria |-> IF c = "relevance" THEN Num(0) ELSE Num(800)]),
    Reply("fenced", [c \in Criteria |-> IF c = "relevance" THEN Num(1500) ELSE Num(-300)]),
    Reply("json", SimpleAll(600) @@ ("overall_score" :> Num(900))),
    Reply("json", SimpleAll(0)),
    Reply("json", ("relevance" :> Num(700))),
    Reply("json", ("relevance" :> JStr)),
    Reply("json", ("relevance" :> JNull)),
    Reply("broken", SimpleAll(400)),
    Reply("broken", ("relevance" :> JBadNum)),
    Reply("json", ("feedback" :> JStr)),
    Reply("prose", EmptyObj) }

\* ------------------------------------------------- api/langchain-eval.py
\* _global_model_tracker['models']
models ==
  <<"gemini-2.0-flash-lite", "gemini-2.0-flash", "gemini-2.5-flash-lite",
    "gemini-2.5-flash">>

\* base_scores of the parsing fallback
ApiBaseScore(m) ==
  CASE m = "relevance" -> 750
    [] m = "coherence" -> 720
    [] m = "factual_accuracy" -> 780
    [] m = "completeness" -> 700
    [] m = "context_usage" -> 730
    [] m = "professional_tone" -> 800
    [] OTHER -> 750

\* base_scores of the outer except: one table per mode
ApiErrorScore(m, mode) ==
  IF mode = "basic" THEN ApiBaseScore(m)
  ELSE CASE m = "relevance" -> 800
         [] m = "coherence" -> 780
         [] m = "factual_accuracy" -> 830
         [] m = "completeness" -> 760
         [] m = "context_usage" -> 790
         [] m = "professional_tone" -> 850
         [] OTHER -> 750

\* score * 1.1 on thousandths; NaN stays NaN
Boost(x) == IF x = NaN THEN NaN ELSE (x * 11) \div 10

\* the direct json.loads stage with the mode adjustment
ApiDirect(v, mode) ==
  LET score == IF mode = "advanced" THEN PyMin(One, Boost(v)) ELSE v
  IN PyMax(0, PyMin(One, score))

\* a variant without the handler: the exception reaches the caller
ApiErrorPropagates(m, mode) == MetricResult(NaN, "raised")

\* except Exception of evaluate_single_metric
ApiError(m, mode) == MetricResult(ApiErrorScore(m, mode), "error")

\* json.loads(result.strip()) returns a dict
IsJsonObject(text) == text.shape \in {"json", "json_braces"}

\* evaluate_single_metric once call_gemini returned text
ApiParse(m, text, mode) ==
  LET rx == RegexNumber(text, "score") IN
    IF text.shape = "value"
      \* parsed_result.get: AttributeError, caught by the outer handler
      THEN ApiError(m, mode)
    ELSE IF IsJsonObject(text) /\ "score" \notin DOMAIN text.obj
      THEN MetricResult(ApiDirect(700, mode), "ok")
    ELSE IF IsJsonObject(text) /\ IsNumeric(text.obj["score"])
      THEN MetricResult(ApiDirect(ToFloat(text.obj["score"]), mode), "ok")
    ELSE IF IsJsonObject(text) /\ text.obj["score"].t = "null"
      THEN ApiError(m, mode)
    \* JSONDecodeError or ValueError: the regular expression
    ELSE IF rx.kind = "match" THEN MetricResult(Clamp01(rx.v), "regex")
    \* float("1.2.3") inside the handler: ValueError, outer handler
    ELSE IF rx.kind = "bad" THEN ApiError(m, mode)
    ELSE MetricResult(ApiBaseScore(m), "fallback")

\* parsed_result.get('feedback', ...) of the direct stage; the later stages
\* and the handler write a feedback of their own
ApiFeedback(m, text, mode) ==
  IF /\ ApiParse(m, text, mode).status = "ok"
     /\ "feedback" \in DOMAIN text.obj
    THEN text.obj["feedback"] ELSE Generated

\* the replies the LLM stub can give to the prompt of one metric
ApiReplies ==
  { Reply("json", ("score" :> Num(850)) @@ ("feedback" :> JStr)),
    Reply("json", ("score" :> Num(950))),
    Reply("json", ("score" :> Num(-500))),
    Reply("json", ("score" :> Num(1700))),
    Reply("json", ("score" :> JNaN)),
    Reply("json", ("score" :> JStr)),
    Reply("json", ("score" :> JNull)),
    Reply("json", ("feedback" :> JStr)),
    Reply("value", EmptyObj),
    Reply("fenced", ("score" :> Num(730))),
    Reply("fenced", ("score" :> Num(1200))),
    Reply("fenced", ("score" :> Num(-100))),
    Reply("broken", ("score" :> JBadNum)),
    Reply("bare", ("score" :> Num(400))),
    Reply("prose", EmptyObj),
    Reply("json", ("score" :> Num(730)) @@ ("feedback" :> JText(1))),
    Reply("json", ("score" :> Num(0)) @@ ("feedback" :> JText(1))),
    Reply("json", ("score" :> Num(One)) @@ ("feedback" :> JText(1))),
    Reply("json_braces", ("score" :> Num(730)) @@ ("feedback" :> JText(2))),
    Reply("empty", EmptyObj) }

\* the replies the LLM stub gives inside the loop over the six metrics
ApiLoopReplies ==
  { Reply("json", ("score" :> Num(850)) @@ ("feedback" :> JStr)),
    Reply("json", ("score" :> Num(-500))),
    Reply("fenced", ("score" :> Num(1200))),
    Reply("prose", EmptyObj) }

\* ------------------------------------------------- heuristic inputs
\* the words a question, an answer or a context is made of: a word of two
\* letters, a stop word of three letters and a word of four letters
Words == {"ai", "the", "data"}

WordLen(w) == CASE w = "ai" -> 2 [] w = "the" -> 3 [] w = "data" -> 4

\* the texts a retrieved context can be, the empty string included
ContextTexts == {{}, {"data"}, {"ai", "the"}, Words}

\* lists of at most two contexts
ContextLists ==
  {<<>>} \cup {<<c>> : c \in ContextTexts}
         \cup {<<c, d>> : c \in ContextTexts, d \in ContextTexts}

\* a question, an answer (its words, said repeat times over) and contexts
HeuristicInputs ==
  [question : {{}, {"the"}, {"ai", "data"}, Words},
   answer : SUBSET Words,
   repeat : {1, 5, 500},
   contexts : ContextLists]

NoInput == [question |-> {}, answer |-> {}, repeat |-> 0, contexts |-> <<>>]

\* ------------------- rag_evaluator.py: _manual_evaluation_fallback
\* a / b in thousandths
Ratio(a, b) == (a * One) \div b

\* len(answer.split())
WordCount(inp) == Cardinality(inp.answer) * inp.repeat

\* the words of " ".join(contexts)
ContextWords(contexts) == UNION {contexts[k] : k \in 1..Len(contexts)}

\* the stop words among Words
StopWords == {"the"}

\* a variant that lets a very long answer fall below 0.7
CompletenessNoFloor(word_count) ==
  IF word_count < 10 THEN word_count * 100
  ELSE IF word_count > 300 THEN One - (word_count - 300)
  ELSE One

\* the completeness score of an answer of word_count words
Completeness(word_count) ==
  IF word_count < 10 THEN word_count * 100
  ELSE IF word_count > 300 THEN PyMax(700, One - (word_count - 300))
  ELSE One

\* _manual_evaluation_fallback on a batch of one case: every mean is the
\* value of that case
ManualFallback(inp) ==
  LET context_text == ContextWords(inp.contexts)
      utilization_score ==
        Ratio(Cardinality(inp.answer \cap context_text), PyMax(WordCount(inp), 1))
      context_utilization ==
        IF inp.contexts = <<>> THEN 0 ELSE PyMin(utilization_score, One)
      question_content == inp.question \ StopWords
      answer_content == inp.answer \ StopWords
      keyword_coverage ==
        IF question_content # {}
          THEN Ratio(Cardinality(question_content \cap answer_content),
                     Cardinality(question_content))
          ELSE 500
  IN [m \in GroqMetrics |->
        CASE m = "context_recall" -> (IF inp.contexts # <<>> THEN 800 ELSE 200)
          [] m = "answer_relevancy" -> keyword_coverage
          [] m = "answer_correctness" -> Completeness(WordCount(inp))
          [] OTHER -> context_utilization]

\* --------------------------- evaluation/ragas_evaluator.py: evaluate_heuristic
text_similarity(words1, words2) ==
  IF words1 = {} \/ words2 = {} THEN 0
  ELSE Ratio(Cardinality(words1 \cap words2), Cardinality(words1 \cup words2))

\* the words of at least k letters
LongWords(ws, k) == {w \in ws : WordLen(w) >= k}

calculate_faithfulness(answer, contexts) ==
  IF contexts = <<>> THEN 500
  ELSE LET similarity == text_similarity(answer, ContextWords(contexts))
           factual_score == PyMin(900, 600 + ((similarity * 4) \div 10))
       IN PyMax(400, factual_score)

calculate_answer_relevancy(question, answer) ==
  LET similarity == text_similarity(question, answer)
      question_words == LongWords(question, 3)
      keyword_overlap ==
        IF question_words # {}
          THEN Ratio(Cardinality(question_words \cap answer), Cardinality(question_words))
          ELSE 0
      relevancy_score == ((similarity * 6) + (keyword_overlap * 4)) \div 10
  IN PyMax(300, PyMin(950, relevancy_score))

calculate_context_precision(question, contexts) ==
  IF contexts = <<>> THEN 300
  ELSE LET question_words == LongWords(question, 3)
           idx == 1..Len(contexts)
           relevance ==
             [k \in idx |->
                IF question_words # {}
                  THEN Ratio(Cardinality(question_words \cap contexts[k]),
                             Cardinality(question_words))
                  ELSE 0]
           precision == SumOver(relevance, idx) \div Len(contexts)
       IN PyMax(400, PyMin(900, precision))

calculate_context_recall(answer, contexts) ==
  IF contexts = <<>> THEN 500
  ELSE LET similarity == text_similarity(answer, ContextWords(contexts))
           context_words == LongWords(ContextWords(contexts), 4)
           recall == Ratio(Cardinality(context_words \cap answer),
                           Cardinality(context_words))
       IN IF context_words = {} THEN 500
          ELSE PyMax(400, PyMin(850, ((recall * 7) + (similarity * 3)) \div 10))

evaluate_heuristic(inp) ==
  LET faithfulness_score == calculate_faithfulness(inp.answer, inp.contexts)
      answer_relevancy_score == calculate_answer_relevancy(inp.question, inp.answer)
      context_precision_score == calculate_context_precision(inp.question, inp.contexts)
      context_recall_score == calculate_context_recall(inp.answer, inp.contexts)
  IN [m \in GroqMetrics |->
        CASE m = "faithfulness" -> faithfulness_score
          [] m = "answer_relevancy" -> answer_relevancy_score
          [] m = "context_recall" -> context_recall_score
          [] m = "answer_correctness" ->
               (faithfulness_score + answer_relevancy_score) \div 2
          [] OTHER -> context_precision_score]

\* ------------------------------------------------------ line protocol
\* if rag_mode not in ['basic', 'advanced']
Modes == {"basic", "advanced"}

\* a line printed on stdout: its prefix and the unit of work it reports
\* (0 for a line about the whole run)
Line(kind, unit) == [kind |-> kind, unit |-> unit]

NoSummary == [total_cases |-> 0]

\* an entry of the query log: a call of query_rag_system for a run of a
\* test case (counted from 0 as enumerate does), or a sleep between two
Query(case, run) == [kind |-> "query", case |-> case, run |-> run]

Delay == [kind |-> "sleep", case |-> 0, run |-> 0]

\* rag_results: the entries of the log that are queries, in order
RagQueries(q) == SelectSeq(q, LAMBDA e : e.kind = "query")

\* a variant of the loop that runs every test case once and then every
\* test case a second time
TestCaseOfByRun(k, total_runs) == (k - 1) % (total_runs \div 2)

\* the test case whose query is the k-th of the loop (from 1): enumerate
\* over the test cases, two queries in each pass
TestCaseOf(k, total_runs) == (k - 1) \div 2

\* the run the k-th query of the loop belongs to
RunOf(k) == ((k - 1) % 2) + 1

\* a variant that sleeps after every query
DelayAfterAlways(case, run, tests) == TRUE

\* asyncio.sleep(4.0) after the first run of a test case, and after the
\* second run unless the test case is the last
DelayAfter(case, run, tests) == run = 1 \/ case < tests - 1

\* aligned_test_cases: every test case twice, as indices from 0
AlignedCase(k) == (k - 1) \div 2

\* progress = 10 + (k / total_runs) * 40 for the k-th query from 0, in
\* whole percent
QueryProgress(k, total_runs) == 10 + ((k * 40) \div total_runs)

NoFeedback == [t |-> "none", v |-> 0]

\* ------------------------------------------------------------ state
VARIABLES
  path,               \* the entry point that runs
  n,                  \* number of cases handed to evaluate_with_ragas
  pc,                 \* position of the coroutine
  i,                  \* index of the case being evaluated (from 1)
  rag_result,         \* the RAG answer of the case
  result,             \* the result dict of the case
  retry_count,
  eval_text,          \* the reply of the LLM, NoReply before one arrived
  outcomes,           \* outcome of each ainvoke of the case, in order
  sleeps,             \* the backoff waits of the case, in order
  producer,           \* the strategy that wrote the scores of the case
  individual_results, \* list returned by _groq_based_evaluation
  results_data,       \* the results sent as RESULT lines
  individual_available, \* self.individual_evaluator is not None
  metric_idx,         \* position in the loop over the criteria (from 1)
  individual_metrics, \* metric name -> result of its evaluation
  raised,             \* the metrics whose LLM call raised
  rag_mode,           \* 'basic' or 'advanced'
  current_index,      \* _global_model_tracker['current_index']
  results,            \* evaluate_all_metrics: metric name -> result
  groq_api_key,       \* os.getenv("GROQ_API_KEY") is set
  test_case,          \* the test case JSON of the single evaluator
  heuristic_input,    \* question, answer and contexts given to a heuristic
  lines,              \* the RESULT, ERROR, SUMMARY and SUCCESS lines printed
  rag_queried,        \* query_rag_system was called
  llm_called,         \* the LLM was invoked
  summary,            \* the summary of create_summary
  served,             \* the models returned by get_next_model, in order
  feedback,           \* the feedback of the last single-metric evaluation
  queries,            \* the RAG queries and the delays of a batch, in order
  callers             \* the batch that made each call of get_next_model

vars ==
  <<path, n, pc, i, rag_result, result, retry_count, eval_text, outcomes,
    sleeps, producer, individual_results, results_data,
    individual_available, metric_idx, individual_metrics, raised,
    rag_mode, current_index, results, groq_api_key, test_case,
    heuristic_input, lines, rag_queried, llm_called, summary, served,
    feedback, queries, callers>>

\* the inputs of a run: no step changes them
inputVars == <<groq_api_key, test_case, heuristic_input>>

apiVars == <<rag_mode, current_index, results>>

metricVars == <<individual_available, metric_idx, individual_metrics, raised>>

caseVars == <<rag_result, result, retry_count, eval_text, outcomes, sleeps, producer>>

NoScores == [m \in GroqMetrics |-> 0]

\* the first position of each entry point
StartOf(p) ==
  CASE p = "web" -> "web_main"
    [] p = "single" -> "single_main"
    [] p = "rotator" -> "rotate"
    [] p = "heuristic" -> "heuristic_start"
    [] p = "simple" -> "simple_start"
    [] p = "api" -> "api_metric"
    [] p = "metric_once" -> "once_start"
    [] p = "api_once" -> "api_once_start"
    [] p = "cli" -> "cli_start"
    [] p = "comprehensive" -> "comp_query"

Init ==
  /\ path \in {"web", "single", "simple", "api", "metric_once", "api_once",
               "rotator", "heuristic", "cli", "comprehensive"}
  /\ individual_available \in BOOLEAN
  /\ path # "single" => ~individual_available
  /\ n \in 0..(2 * MaxCases)
  /\ path = "web" => n \in {2 * t : t \in 0..MaxCases}
  /\ path = "comprehensive" => n \in 1..MaxCases
  /\ path \notin {"web", "comprehensive"} => n = 1
  /\ pc = StartOf(path)
  /\ rag_mode \in {"basic", "advanced", "turbo"}
  /\ path \in {"api", "api_once", "cli"} => rag_mode \in Modes
  /\ path \in {"web", "single"} => rag_mode \in {"basic", "turbo"}
  /\ path \notin {"api", "api_once", "cli", "web", "single"} => rag_mode = "basic"
  /\ groq_api_key \in BOOLEAN
  /\ path \notin {"web", "single"} => groq_api_key
  /\ test_case \in {"ok", "missing_key", "invalid_json"}
  /\ path # "single" => test_case = "ok"
  /\ (path = "web" /\ (rag_mode = "turbo" \/ ~groq_api_key)) => n = 2
  /\ heuristic_input \in HeuristicInputs \cup {NoInput}
  /\ heuristic_input # NoInput <=> path = "heuristic"
  /\ lines = <<>>
  /\ rag_queried = FALSE
  /\ llm_called = FALSE
  /\ summary = NoSummary
  /\ served = <<>>
  /\ feedback = NoFeedback
  /\ queries = <<>>
  /\ callers = <<>>
  /\ current_index \in 0..(Len(models) - 1)
  /\ path # "api_once" => current_index = 0
  /\ results = EmptyObj
  /\ metric_idx = 1
  /\ individual_metrics = EmptyObj
  /\ raised = {}
  /\ i = 1
  /\ rag_result = NoRag
  /\ result = NoScores
  /\ retry_count = 0
  /\ eval_text = NoReply
  /\ outcomes = <<>>
  /\ sleeps = <<>>
  /\ producer = "none"
  /\ individual_results = <<>>
  /\ results_data = <<>>

\* ------------------------------------------------------ entry points
\* main() of web_evaluator.py up to the call of run_web_evaluation: the
\* API key is checked, the mode argument is passed on as it is
WebMain ==
  /\ pc = "web_main"
  /\ IF ~groq_api_key
       THEN /\ lines' = Append(lines, Line("ERROR", 0))
            /\ pc' = "done"
       ELSE /\ pc' = "web_dataset"
            /\ UNCHANGED lines
  /\ UNCHANGED <<path, n, i, caseVars, individual_results, results_data,
                 metricVars, apiVars, inputVars, queries, callers, rag_queried,
                 llm_called, summary, served, feedback>>

\* the start of run_web_evaluation: the test cases are created, each is
\* run twice
WebCreateDataset ==
  /\ pc = "web_dataset"
  /\ lines' = lines \o <<Line("PROGRESS", 5), Line("PROGRESS", 10)>>
  /\ i' = 1
  /\ pc' = "web_query"
  /\ UNCHANGED <<path, n, caseVars, individual_results, results_data,
                 metricVars, apiVars, inputVars, queries, callers, rag_queried,
                 llm_called, summary, served, feedback>>

\* one query of the loop over the test cases and its two runs, with the
\* sleep that follows it; i counts the runs from 1
WebQueryRun ==
  /\ pc = "web_query"
  /\ i <= n
  /\ LET case == TestCaseOf(i, n)
         run == RunOf(i)
     IN /\ lines' = Append(lines, Line("PROGRESS", QueryProgress(i - 1, n)))
        /\ queries' = queries \o <<Query(case, run)>> \o
                        (IF DelayAfter(case, run, n \div 2)
                           THEN <<Delay>> ELSE <<>>)
  /\ rag_queried' = TRUE
  /\ i' = i + 1
  /\ UNCHANGED <<path, n, pc, caseVars, individual_results, results_data,
                 metricVars, apiVars, inputVars, callers, llm_called, summary,
                 served, feedback>>

\* the end of the query loop
WebQueriesDone ==
  /\ pc = "web_query"
  /\ i > n
  /\ lines' = Append(lines, Line("PROGRESS", 50))
  /\ pc' = "groq_start"
  /\ UNCHANGED <<path, n, i, caseVars, individual_results, results_data,
                 metricVars, apiVars, inputVars, queries, callers, rag_queried,
                 llm_called, summary, served, feedback>>

\* main() of web_evaluator.py after run_web_evaluation returned True
WebMainEnd ==
  /\ pc = "web_returned"
  /\ lines' = Append(lines, Line("SUCCESS", 0))
  /\ pc' = "done"
  /\ UNCHANGED <<path, n, i, caseVars, individual_results, results_data,
                 metricVars, apiVars, inputVars, queries, callers, rag_queried, llm_called,
                 summary, served, feedback>>

\* main() of single_evaluator.py up to the call of evaluate_single_test
SingleMain ==
  /\ pc = "single_main"
  /\ IF ~groq_api_key \/ test_case = "invalid_json" \/ rag_mode \notin Modes
       THEN /\ lines' = Append(lines, Line("ERROR", 0))
            /\ pc' = "done"
       ELSE /\ pc' = "single_start"
            /\ UNCHANGED lines
  /\ UNCHANGED <<path, n, i, caseVars, individual_results, results_data,
                 metricVars, apiVars, inputVars, queries, callers, rag_queried, llm_called,
                 summary, served, feedback>>

\* evaluate_single_test on a test case without its category: the KeyError
\* is caught, reported with send_error, and False is returned
SingleCaseRaises ==
  /\ pc = "single_start"
  /\ test_case = "missing_key"
  /\ lines' = Append(lines, Line("ERROR", 1))
  /\ pc' = "single_failed"
  /\ UNCHANGED <<path, n, i, caseVars, individual_results, results_data,
                 metricVars, apiVars, inputVars, queries, callers, rag_queried, llm_called,
                 summary, served, feedback>>

\* main() of single_evaluator.py after evaluate_single_test returned True
SingleMainSuccess ==
  /\ pc = "single_returned"
  /\ lines' = Append(lines, Line("SUCCESS", 0))
  /\ pc' = "done"
  /\ UNCHANGED <<path, n, i, caseVars, individual_results, results_data,
                 metricVars, apiVars, inputVars, queries, callers, rag_queried, llm_called,
                 summary, served, feedback>>

\* a variant in which main stays silent after a failed test
SingleMainFailureSilent ==
  /\ pc = "single_failed"
  /\ pc' = "done"
  /\ UNCHANGED <<path, n, i, caseVars, individual_results, results_data,
                 metricVars, apiVars, inputVars, queries, callers, lines, rag_queried,
                 llm_called, summary, served, feedback>>

\* main() of single_evaluator.py after evaluate_single_test returned False
SingleMainFailure ==
  /\ pc = "single_failed"
  /\ lines' = Append(lines, Line("ERROR", 1))
  /\ pc' = "done"
  /\ UNCHANGED <<path, n, i, caseVars, individual_results, results_data,
                 metricVars, apiVars, inputVars, queries, callers, rag_queried, llm_called,
                 summary, served, feedback>>

\* ------------------------------- RAGEvaluator._groq_based_evaluation
\* await asyncio.sleep(8.0); individual_results = []
GroqStart ==
  /\ pc = "groq_start"
  /\ pc' = "case_begin"
  /\ i' = 1
  /\ individual_results' = <<>>
  /\ UNCHANGED <<path, n, caseVars, results_data, metricVars, apiVars>>
  /\ UNCHANGED <<inputVars, queries, callers, lines, rag_queried, llm_called, summary, served, feedback>>

\* a variant with a batch-wide downgrade: after a case that fell back, the
\* later cases are scored without calling the LLM
CaseBeginSticky ==
  /\ pc = "case_begin"
  /\ i <= n
  /\ \E rag \in CaseRags(i), rb \in CaseRands(i), d \in CaseDraws(i) :
       /\ rag_result' = (IF path = "single" THEN rag_result ELSE rag)
       /\ result' = DefaultScores(rb, d)
  /\ retry_count' = 0
  /\ eval_text' = NoReply
  /\ outcomes' = <<>>
  /\ sleeps' = <<>>
  /\ producer' = "default"
  /\ pc' = IF \E k \in 1..Len(individual_results) :
                individual_results[k].producer # "llm"
             THEN "parse" ELSE "invoke"
  /\ UNCHANGED <<path, n, i, individual_results, results_data, metricVars, apiVars>>
  /\ UNCHANGED <<inputVars, queries, callers, lines, rag_queried, llm_called, summary, served, feedback>>

\* loop head: the default result of the case and the reset of the retry
\* state
CaseBegin ==
  /\ pc = "case_begin"
  /\ i <= n
  /\ \E rag \in CaseRags(i), rb \in CaseRands(i), d \in CaseDraws(i) :
       /\ rag_result' = (IF path = "single" THEN rag_result ELSE rag)
       /\ result' = DefaultScores(rb, d)
  /\ retry_count' = 0
  /\ eval_text' = NoReply
  /\ outcomes' = <<>>
  /\ sleeps' = <<>>
  /\ producer' = "default"
  /\ pc' = "invoke"
  /\ UNCHANGED <<path, n, i, individual_results, results_data, metricVars, apiVars>>
  /\ UNCHANGED <<inputVars, queries, callers, lines, rag_queried, llm_called, summary, served, feedback>>

\* response = await self.llm.ainvoke(eval_prompt) returns
InvokeOk ==
  /\ pc = "invoke"
  /\ retry_count < max_retries
  /\ \E text \in (IF path = "single" THEN GroqReplies ELSE CaseReplies(i)) :
       eval_text' = text
  /\ outcomes' = Append(outcomes, "ok")
  /\ llm_called' = TRUE
  /\ pc' = "parse"
  /\ UNCHANGED <<path, n, i, rag_result, result, retry_count, sleeps,
                 producer, individual_results, results_data, metricVars, apiVars>>
  /\ UNCHANGED <<inputVars, queries, callers, lines, rag_queried, summary, served, feedback>>

\* a variant whose except branch retries at once, without a backoff sleep
InvokeErrorNoSleep(err) ==
  /\ pc = "invoke"
  /\ retry_count < max_retries
  /\ outcomes' = Append(outcomes, err)
  /\ llm_called' = TRUE
  /\ IF IsRateLimit(err)
       THEN /\ retry_count' = retry_count + 1
            /\ pc' = IF retry_count + 1 >= max_retries
                       THEN "case_failed" ELSE "invoke"
            /\ UNCHANGED sleeps
       ELSE /\ pc' = "case_failed"
            /\ UNCHANGED <<retry_count, sleeps>>
  /\ UNCHANGED <<path, n, i, rag_result, result, eval_text, producer,
                 individual_results, results_data, metricVars, apiVars>>
  /\ UNCHANGED <<inputVars, queries, callers, lines, rag_queried, summary, served, feedback>>

\* ainvoke raises err: the except branch of the retry loop
InvokeError(err) ==
  /\ pc = "invoke"
  /\ retry_count < max_retries
  /\ outcomes' = Append(outcomes, err)
  /\ llm_called' = TRUE
  /\ IF IsRateLimit(err)
       THEN /\ retry_count' = retry_count + 1
            /\ sleeps' = Append(sleeps, WaitTime(retry_count + 1))
            /\ pc' = IF retry_count + 1 >= max_retries
                       THEN "case_failed" ELSE "invoke"
       ELSE /\ pc' = "case_failed"
            /\ UNCHANGED <<retry_count, sleeps>>
  /\ UNCHANGED <<path, n, i, rag_result, result, eval_text, producer,
                 individual_results, results_data, metricVars, apiVars>>
  /\ UNCHANGED <<inputVars, queries, callers, lines, rag_queried, summary, served, feedback>>

InvokeRateLimited == InvokeError("rate_limit")

InvokeOtherError == InvokeError("other")

\* parse of the reply, all-zero check, update of the result, and the
\* content-based fallback when the parse did not succeed
ParseAndScore ==
  /\ pc = "parse"
  /\ LET es == GroqExtract(eval_text) IN
       IF GroqSuccess(es)
         THEN /\ result' = GroqUpdate(result, es)
              /\ producer' = "llm"
         ELSE /\ \E d \in RandDraws : result' = HeuristicScores(rag_result, d)
              /\ producer' = "heuristic"
  /\ pc' = "append"
  /\ UNCHANGED <<path, n, i, rag_result, retry_count, eval_text, outcomes,
                 sleeps, individual_results, results_data, metricVars, apiVars>>
  /\ UNCHANGED <<inputVars, queries, callers, lines, rag_queried, llm_called, summary, served, feedback>>

\* a variant whose handler drops the case instead of recording it
CaseFailedDrop ==
  /\ pc = "case_failed"
  /\ pc' = "case_begin"
  /\ i' = i + 1
  /\ UNCHANGED <<path, n, caseVars, individual_results, results_data, metricVars, apiVars>>
  /\ UNCHANGED <<inputVars, queries, callers, lines, rag_queried, llm_called, summary, served, feedback>>

\* except Exception as e: the case keeps the scores it started with
CaseFailed ==
  /\ pc = "case_failed"
  /\ pc' = "append"
  /\ UNCHANGED <<path, n, i, caseVars, individual_results, results_data, metricVars, apiVars>>
  /\ UNCHANGED <<inputVars, queries, callers, lines, rag_queried, llm_called, summary, served, feedback>>

\* individual_results.append(result); await asyncio.sleep(6.0)
AppendResult ==
  /\ pc = "append"
  /\ individual_results' =
       Append(individual_results,
              [scores |-> result, producer |-> producer, case |-> i,
               rag_ok |-> rag_result.ok])
  /\ i' = i + 1
  /\ pc' = "case_begin"
  /\ UNCHANGED <<path, n, caseVars, results_data, metricVars, apiVars>>
  /\ UNCHANGED <<inputVars, queries, callers, lines, rag_queried, llm_called, summary, served, feedback>>

\* return individual_results
GroqReturn ==
  /\ pc = "case_begin"
  /\ i > n
  /\ pc' = "evaluated"
  /\ i' = 1
  /\ UNCHANGED <<path, n, caseVars, individual_results, results_data, metricVars, apiVars>>
  /\ UNCHANGED <<inputVars, queries, callers, lines, rag_queried, llm_called, summary, served, feedback>>

\* --------------------------------- WebRAGEvaluator.run_web_evaluation
\* evaluate_with_ragas returned its list to run_web_evaluation
WebEvaluated ==
  /\ pc = "evaluated"
  /\ path = "web"
  /\ lines' = Append(lines, Line("PROGRESS", 75))
  /\ pc' = "web_process"
  /\ UNCHANGED <<path, n, i, caseVars, individual_results, results_data,
                 metricVars, apiVars, inputVars, queries, callers, rag_queried,
                 llm_called, summary, served, feedback>>

\* one pass of the loop that turns a score record into a RESULT line
WebProcessResult ==
  /\ pc = "web_process"
  /\ i <= Len(individual_results)
  /\ LET rec == individual_results[i] IN
       results_data' =
         Append(results_data,
                [evaluation_method |-> WebMethod(rec.scores),
                 scores |-> WebBase(rec.scores),
                 individual |-> WebIndividual(rec.scores, WebMethod(rec.scores)),
                 overall_score |-> WebOverall(rec.scores),
                 producer |-> rec.producer,
                 category |-> CategoryOf(i),
                 rag_ok |-> rec.rag_ok,
                 question |-> AlignedCase(i),
                 test_case_index |-> RagQueries(queries)[i].case,
                 run_number |-> RagQueries(queries)[i].run])
  /\ lines' = Append(lines, Line("RESULT", i))
  /\ i' = i + 1
  /\ UNCHANGED <<path, n, pc, caseVars, individual_results, metricVars, apiVars>>
  /\ UNCHANGED <<inputVars, queries, callers, rag_queried, llm_called, summary, served, feedback>>

WebDone ==
  /\ pc = "web_process"
  /\ i > Len(individual_results)
  /\ results_data # <<>>
  /\ summary' = create_summary(results_data)
  /\ lines' = lines \o <<Line("PROGRESS", 90), Line("SUMMARY", 0),
                          Line("PROGRESS", 100)>>
  /\ pc' = "web_returned"
  /\ UNCHANGED <<path, n, i, caseVars, individual_results, results_data, metricVars, apiVars>>
  /\ UNCHANGED <<inputVars, queries, callers, rag_queried, llm_called, served, feedback>>

\* if not results_data: the category matched no test case, or no result
\* could be processed
WebNoResults ==
  /\ pc = "web_process"
  /\ i > Len(individual_results)
  /\ results_data = <<>>
  /\ lines' = Append(lines, Line("ERROR", 0))
  /\ pc' = "web_failed"
  /\ UNCHANGED <<path, n, i, caseVars, individual_results, results_data,
                 metricVars, apiVars, inputVars, queries, callers,
                 rag_queried, llm_called, summary, served, feedback>>

\* a variant of main that reports success after run_web_evaluation
\* returned False
WebMainFailedSuccess ==
  /\ pc = "web_failed"
  /\ lines' = Append(lines, Line("SUCCESS", 0))
  /\ pc' = "done"
  /\ UNCHANGED <<path, n, i, caseVars, individual_results, results_data,
                 metricVars, apiVars, inputVars, queries, callers,
                 rag_queried, llm_called, summary, served, feedback>>

\* main() of web_evaluator.py after run_web_evaluation returned False
WebMainFailed ==
  /\ pc = "web_failed"
  /\ lines' = Append(lines, Line("ERROR", 0))
  /\ pc' = "done"
  /\ UNCHANGED <<path, n, i, caseVars, individual_results, results_data,
                 metricVars, apiVars, inputVars, queries, callers,
                 rag_queried, llm_called, summary, served, feedback>>

\* ------------------------------ RAGEvaluator.run_comprehensive_evaluation
\* one pass of the query loop: every test case is queried once, with a
\* sleep after every query but the last
ComprehensiveQuery ==
  /\ pc = "comp_query"
  /\ i <= n
  /\ queries' = queries \o <<Query(i - 1, 1)>> \o
                  (IF i - 1 < n - 1 THEN <<Delay>> ELSE <<>>)
  /\ rag_queried' = TRUE
  /\ i' = i + 1
  /\ UNCHANGED <<path, n, pc, caseVars, individual_results, results_data,
                 metricVars, apiVars, inputVars, callers, lines, llm_called, summary,
                 served, feedback>>

\* ragas_scores = await self.evaluate_with_ragas(test_cases, rag_results)
ComprehensiveEvaluate ==
  /\ pc = "comp_query"
  /\ i > n
  /\ pc' = "groq_start"
  /\ UNCHANGED <<path, n, i, caseVars, individual_results, results_data,
                 metricVars, apiVars, inputVars, queries, callers, lines, rag_queried,
                 llm_called, summary, served, feedback>>

\* the first pass of the loop that compiles the results: ragas_scores is
\* the list evaluate_with_ragas returned, ragas_scores.get raises
\* AttributeError and the function has no handler
ComprehensiveCompile ==
  /\ pc = "evaluated"
  /\ path = "comprehensive"
  /\ pc' = "comprehensive_raised"
  /\ UNCHANGED <<path, n, i, caseVars, individual_results, results_data,
                 metricVars, apiVars, inputVars, queries, callers, lines, rag_queried,
                 llm_called, summary, served, feedback>>

\* ------------------------------ SingleTestEvaluator.evaluate_single_test
\* the scores of the individual evaluation under the names of the
\* standard result; answer_correctness is evaluation.overall_score
\* sum(s for s in metric_scores if s > 0) / len([...]) if any(...) else 0.0
SingleOverall(cs, eo) ==
  LET mapped == <<cs["factual_accuracy"], cs["relevance"], cs["context_usage"],
                  cs["completeness"], cs["context_usage"]>>
      f == [k \in 1..5 |-> mapped[k]]
      pos == {k \in 1..5 : PyPositive(f[k])}
  IN IF eo.num > 0
       THEN Frac((SumOver(f, pos) * eo.den) + eo.num,
                 (Cardinality(pos) + 1) * eo.den)
     ELSE IF pos # {}
       THEN Frac(SumOver(f, pos), Cardinality(pos))
     ELSE Frac(0, 1)

\* rag_result = await self.evaluator.query_rag_system(...), then the
\* choice of the evaluator
SingleQuery ==
  /\ pc = "single_start"
  /\ test_case = "ok"
  /\ \E rag \in RagResults : rag_result' = rag
  /\ rag_queried' = TRUE
  /\ pc' = IF individual_available THEN "metric" ELSE "groq_start"
  /\ UNCHANGED <<path, n, i, result, retry_count, eval_text, outcomes,
                 sleeps, producer, individual_results, results_data, metricVars, apiVars>>
  /\ UNCHANGED <<inputVars, queries, callers, lines, llm_called, summary, served, feedback>>

\* one pass of the loop of evaluate_response in which the chain returns
MetricCallReturns ==
  /\ pc = "metric"
  /\ metric_idx <= Len(CriteriaOrder)
  /\ llm_called' = TRUE
  /\ LET m == CriteriaOrder[metric_idx] IN
       \E text \in LoopReplies(m) :
         individual_metrics' = individual_metrics @@ (m :> IndividualParse(m, text))
  /\ metric_idx' = metric_idx + 1
  /\ UNCHANGED <<path, n, pc, i, caseVars, individual_results, results_data,
                 individual_available, raised, apiVars>>
  /\ UNCHANGED <<inputVars, queries, callers, lines, rag_queried, summary, served, feedback>>

\* one pass of the loop of evaluate_response in which chain.ainvoke raises
MetricCallRaises ==
  /\ pc = "metric"
  /\ metric_idx <= Len(CriteriaOrder)
  /\ llm_called' = TRUE
  /\ LET m == CriteriaOrder[metric_idx] IN
       /\ individual_metrics' = individual_metrics @@ (m :> IndividualError)
       /\ raised' = raised \cup {m}
  /\ metric_idx' = metric_idx + 1
  /\ UNCHANGED <<path, n, pc, i, caseVars, individual_results, results_data,
                 individual_available, apiVars>>
  /\ UNCHANGED <<inputVars, queries, callers, lines, rag_queried, summary, served, feedback>>

\* the end of evaluate_response and the result built from it
SingleIndividualResult ==
  /\ pc = "metric"
  /\ metric_idx > Len(CriteriaOrder)
  /\ LET eo == IndividualOverall(individual_metrics)
         cs == ScoresOf(individual_metrics)
     IN results_data' =
          Append(results_data,
                 [evaluation_method |-> "individual_metrics",
                  scores |-> cs,
                  answer_correctness |-> eo,
                  overall_score |-> SingleOverall(cs, eo),
                  producer |-> "individual",
                  test_case_index |-> 1])
  /\ lines' = Append(lines, Line("RESULT", 1))
  /\ pc' = "single_returned"
  /\ UNCHANGED <<path, n, i, caseVars, individual_results, metricVars, apiVars>>
  /\ UNCHANGED <<inputVars, queries, callers, rag_queried, llm_called, summary, served, feedback>>

\* the standard evaluation of a process without individual evaluator:
\* the result has an evaluation_method only if the scores carry one
SingleStandardResult ==
  /\ pc = "evaluated"
  /\ path = "single"
  /\ LET rec == individual_results[1] IN
       results_data' =
         Append(results_data,
                [evaluation_method |->
                   IF "evaluation_method" \in DOMAIN rec.scores
                     THEN rec.scores["evaluation_method"] ELSE "absent",
                 scores |-> rec.scores,
                 overall_score |-> WebOverall(rec.scores),
                 producer |-> rec.producer,
                 test_case_index |-> rec.case])
  /\ lines' = Append(lines, Line("RESULT", 1))
  /\ pc' = "single_returned"
  /\ UNCHANGED <<path, n, i, caseVars, individual_results, metricVars, apiVars>>
  /\ UNCHANGED <<inputVars, queries, callers, rag_queried, llm_called, summary, served, feedback>>

\* ----------------------- IndividualMetricRAGEvaluator._evaluate_single_metric
\* one call of _evaluate_single_metric on its own, over every reply shape
EvaluateOnceReturns ==
  /\ pc = "once_start"
  /\ \E m \in Criteria : \E text \in IndReplies(m) :
       /\ eval_text' = text
       /\ individual_metrics' = (m :> IndividualParse(m, text))
       /\ feedback' = IndividualFeedback(m, text)
  /\ llm_called' = TRUE
  /\ pc' = "done"
  /\ UNCHANGED <<path, n, i, rag_result, result, retry_count, outcomes,
                 sleeps, producer, individual_results, results_data,
                 individual_available, metric_idx, raised, apiVars>>
  /\ UNCHANGED <<inputVars, queries, callers, lines, rag_queried, summary, served>>

EvaluateOnceRaises ==
  /\ pc = "once_start"
  /\ \E m \in Criteria :
       /\ individual_metrics' = (m :> IndividualError)
       /\ raised' = {m}
  /\ feedback' = Generated
  /\ llm_called' = TRUE
  /\ pc' = "done"
  /\ UNCHANGED <<path, n, i, caseVars, individual_results, results_data,
                 individual_available, metric_idx, apiVars>>
  /\ UNCHANGED <<inputVars, queries, callers, lines, rag_queried, summary, served>>

\* ----------------------------- SimpleLangChainRAGEvaluator.evaluate_response
SimpleRecord(r) ==
  [evaluation_method |-> "absent", scores |-> r.scores,
   overall_score |-> r.overall_score, producer |-> "simple",
   status |-> r.status]

\* the chain returns text
SimpleReturns ==
  /\ pc = "simple_start"
  /\ \E text \in SimpleReplies :
       results_data' = Append(results_data, SimpleRecord(SimpleParse(text)))
  /\ llm_called' = TRUE
  /\ pc' = "done"
  /\ UNCHANGED <<path, n, i, caseVars, individual_results, metricVars, apiVars>>
  /\ UNCHANGED <<inputVars, queries, callers, lines, rag_queried, summary, served, feedback>>

\* chain.ainvoke raises
SimpleRaises ==
  /\ pc = "simple_start"
  /\ results_data' = Append(results_data, SimpleRecord(SimpleError))
  /\ llm_called' = TRUE
  /\ pc' = "done"
  /\ UNCHANGED <<path, n, i, caseVars, individual_results, metricVars, apiVars>>
  /\ UNCHANGED <<inputVars, queries, callers, lines, rag_queried, summary, served, feedback>>

\* ------------------------------------------------- api/langchain-eval.py
\* a variant that advances the cursor by two
NextIndexSkip(idx) == (idx + 2) % Len(models)

\* get_next_model(): the cursor after the call
NextIndex(idx) == (idx + 1) % Len(models)

\* get_next_model(): the model returned
ModelAt(idx) == models[idx + 1]

\* one pass of the loop of evaluate_all_metrics in which call_gemini returns
ApiMetricReturns ==
  /\ pc = "api_metric"
  /\ metric_idx <= Len(CriteriaOrder)
  /\ current_index' = NextIndex(current_index)
  /\ served' = Append(served, ModelAt(current_index))
  /\ llm_called' = TRUE
  /\ LET m == CriteriaOrder[metric_idx] IN
       \E text \in ApiLoopReplies :
         results' = results @@ (m :> ApiParse(m, text, rag_mode))
  /\ metric_idx' = metric_idx + 1
  /\ UNCHANGED <<path, n, pc, i, caseVars, individual_results, results_data,
                 individual_available, individual_metrics, raised, rag_mode>>
  /\ UNCHANGED <<inputVars, queries, callers, lines, rag_queried, summary, feedback>>

\* one pass of the loop of evaluate_all_metrics in which call_gemini raises
ApiMetricRaises ==
  /\ pc = "api_metric"
  /\ metric_idx <= Len(CriteriaOrder)
  /\ current_index' = NextIndex(current_index)
  /\ served' = Append(served, ModelAt(current_index))
  /\ llm_called' = TRUE
  /\ LET m == CriteriaOrder[metric_idx] IN
       /\ results' = results @@ (m :> ApiError(m, rag_mode))
       /\ raised' = raised \cup {m}
  /\ metric_idx' = metric_idx + 1
  /\ UNCHANGED <<path, n, pc, i, caseVars, individual_results, results_data,
                 individual_available, individual_metrics, rag_mode>>
  /\ UNCHANGED <<inputVars, queries, callers, lines, rag_queried, summary, feedback>>

\* return results
ApiReturn ==
  /\ pc = "api_metric"
  /\ metric_idx > Len(CriteriaOrder)
  /\ results_data' =
       Append(results_data,
              [evaluation_method |-> "absent", scores |-> ScoresOf(results),
               producer |-> "api"])
  /\ pc' = "done"
  /\ UNCHANGED <<path, n, i, caseVars, individual_results, metricVars, apiVars>>
  /\ UNCHANGED <<inputVars, queries, callers, lines, rag_queried, llm_called, summary, served, feedback>>

\* one call of evaluate_single_metric on its own, over every reply shape
ApiOnceReturns ==
  /\ pc = "api_once_start"
  /\ current_index' = NextIndex(current_index)
  /\ served' = Append(served, ModelAt(current_index))
  /\ llm_called' = TRUE
  /\ \E m \in Criteria : \E text \in ApiReplies :
       /\ eval_text' = text
       /\ results' = (m :> ApiParse(m, text, rag_mode))
       /\ feedback' = ApiFeedback(m, text, rag_mode)
  /\ pc' = "done"
  /\ UNCHANGED <<path, n, i, rag_result, result, retry_count, outcomes,
                 sleeps, producer, individual_results, results_data,
                 metricVars, rag_mode>>
  /\ UNCHANGED <<inputVars, queries, callers, lines, rag_queried, summary>>

\* a variant in which a call that fails leaves the cursor where it was
ApiOnceRaisesNoAdvance ==
  /\ pc = "api_once_start"
  /\ llm_called' = TRUE
  /\ feedback' = Generated
  /\ \E m \in Criteria :
       /\ results' = (m :> ApiError(m, rag_mode))
       /\ raised' = {m}
  /\ pc' = "done"
  /\ UNCHANGED <<path, n, i, caseVars, individual_results, results_data,
                 individual_available, metric_idx, individual_metrics, rag_mode,
                 current_index, served>>
  /\ UNCHANGED <<inputVars, queries, callers, lines, rag_queried, summary>>

ApiOnceRaises ==
  /\ pc = "api_once_start"
  /\ current_index' = NextIndex(current_index)
  /\ served' = Append(served, ModelAt(current_index))
  /\ llm_called' = TRUE
  /\ feedback' = Generated
  /\ \E m \in Criteria :
       /\ results' = (m :> ApiError(m, rag_mode))
       /\ raised' = {m}
  /\ pc' = "done"
  /\ UNCHANGED <<path, n, i, caseVars, individual_results, results_data,
                 individual_available, metric_idx, individual_metrics, rag_mode>>
  /\ UNCHANGED <<inputVars, queries, callers, lines, rag_queried, summary>>

\* ------------------------------------------------- the heuristics
\* _manual_evaluation_fallback(questions, answers, contexts, ground_truths)
ManualFallbackReturns ==
  /\ pc = "heuristic_start"
  /\ result' = ManualFallback(heuristic_input)
  /\ producer' = "manual"
  /\ pc' = "heuristic_next"
  /\ UNCHANGED <<path, n, i, rag_result, retry_count, eval_text, outcomes,
                 sleeps, individual_results, results_data, metricVars, apiVars>>
  /\ UNCHANGED <<inputVars, queries, callers, lines, rag_queried, llm_called, summary, served, feedback>>

\* evaluate_heuristic(question, answer, contexts)
HeuristicReturns ==
  /\ pc = "heuristic_next"
  /\ result' = evaluate_heuristic(heuristic_input)
  /\ producer' = "evaluate_heuristic"
  /\ pc' = "done"
  /\ UNCHANGED <<path, n, i, rag_result, retry_count, eval_text, outcomes,
                 sleeps, individual_results, results_data, metricVars, apiVars>>
  /\ UNCHANGED <<inputVars, queries, callers, lines, rag_queried, llm_called, summary, served, feedback>>

\* evaluate_single_metric with a name that is not in CRITERIA: the
\* ValueError is raised inside the try and caught by its handler, before
\* get_next_model is called
UnknownMetric == "novelty"

ApiOnceUnknown ==
  /\ pc = "api_once_start"
  /\ results' = (UnknownMetric :> ApiError(UnknownMetric, rag_mode))
  /\ feedback' = Generated
  /\ pc' = "done"
  /\ UNCHANGED <<path, n, i, caseVars, individual_results, results_data,
                 metricVars, rag_mode, current_index>>
  /\ UNCHANGED <<inputVars, queries, callers, lines, rag_queried, llm_called, summary, served>>

\* ------------------------------ python_evaluators/langchain_evaluator.py
\* LangChainEvaluator.evaluate_all_metrics on a constructed evaluator:
\* self.criteria is assigned after the try statement of _call_gemini, whose
\* two branches return and re-raise, so the attribute never exists and
\* self.criteria.keys() raises AttributeError outside every handler
CliEvaluateAllMetrics ==
  /\ pc = "cli_start"
  /\ pc' = "cli_raised"
  /\ UNCHANGED <<path, n, i, caseVars, individual_results, results_data,
                 metricVars, apiVars>>
  /\ UNCHANGED <<inputVars, queries, callers, lines, rag_queried, llm_called, summary, served, feedback>>

\* LangChainEvaluator.evaluate_single_metric on a constructed evaluator:
\* the AttributeError of self.criteria is raised inside the try and caught
\* by except Exception, before _get_next_model and _call_gemini
CliEvaluateSingleMetric ==
  /\ pc = "cli_start"
  /\ \E m \in Criteria \cup {UnknownMetric} :
       results' = (m :> ApiError(m, rag_mode))
  /\ feedback' = Generated
  /\ pc' = "done"
  /\ UNCHANGED <<path, n, i, caseVars, individual_results, results_data,
                 metricVars, rag_mode, current_index>>
  /\ UNCHANGED <<inputVars, queries, callers, lines, rag_queried, llm_called, summary, served>>

\* the batches that share the rotator of the process
Batches == {1, 2}

\* the number of calls of get_next_model batch b has made
CallsOf(b) == Cardinality({k \in 1..Len(callers) : callers[k] = b})

\* a variant in which the cursor written by the second batch is lost
RotatorNextLostWrite ==
  /\ pc = "rotate"
  /\ Len(served) < MaxCalls
  /\ \E b \in Batches :
       /\ CallsOf(b) < Len(CriteriaOrder)
       /\ callers' = Append(callers, b)
       /\ current_index' = IF b = 2 THEN current_index ELSE NextIndex(current_index)
  /\ served' = Append(served, ModelAt(current_index))
  /\ UNCHANGED <<path, n, pc, i, caseVars, individual_results, results_data,
                 metricVars, rag_mode, results>>
  /\ UNCHANGED <<inputVars, queries, lines, rag_queried, llm_called, summary, feedback>>

\* one call of get_next_model by one of the batches that run
\* evaluate_all_metrics on the rotator of the process, each making one call
\* per metric: the function has no await, so the other batch runs between
\* two calls and never inside one
RotatorNext ==
  /\ pc = "rotate"
  /\ Len(served) < MaxCalls
  /\ \E b \in Batches :
       /\ CallsOf(b) < Len(CriteriaOrder)
       /\ callers' = Append(callers, b)
  /\ served' = Append(served, ModelAt(current_index))
  /\ current_index' = NextIndex(current_index)
  /\ UNCHANGED <<path, n, pc, i, caseVars, individual_results, results_data,
                 metricVars, rag_mode, results>>
  /\ UNCHANGED <<inputVars, queries, lines, rag_queried, llm_called, summary, feedback>>

Next ==
  \/ WebMain
  \/ WebCreateDataset
  \/ WebQueryRun
  \/ WebQueriesDone
  \/ WebEvaluated
  \/ WebNoResults
  \/ WebMainFailed
  \/ ComprehensiveQuery
  \/ ComprehensiveEvaluate
  \/ ComprehensiveCompile
  \/ WebMainEnd
  \/ SingleMain
  \/ SingleCaseRaises
  \/ SingleMainSuccess
  \/ SingleMainFailure
  \/ GroqStart
  \/ CaseBegin
  \/ InvokeOk
  \/ InvokeRateLimited
  \/ InvokeOtherError
  \/ ParseAndScore
  \/ CaseFailed
  \/ AppendResult
  \/ GroqReturn
  \/ WebProcessResult
  \/ WebDone
  \/ SingleQuery
  \/ MetricCallReturns
  \/ MetricCallRaises
  \/ SingleIndividualResult
  \/ SingleStandardResult
  \/ EvaluateOnceReturns
  \/ EvaluateOnceRaises
  \/ SimpleReturns
  \/ SimpleRaises
  \/ ApiMetricReturns
  \/ ApiMetricRaises
  \/ ApiReturn
  \/ ApiOnceReturns
  \/ ApiOnceRaises
  \/ ApiOnceUnknown
  \/ CliEvaluateAllMetrics
  \/ CliEvaluateSingleMetric
  \/ RotatorNext
  \/ ManualFallbackReturns
  \/ HeuristicReturns

Spec == Init /\ [][Next]_vars

TypeOK ==
  /\ pc \in {"groq_start", "case_begin", "invoke", "parse", "case_failed",
             "append", "evaluated", "done", "single_start", "metric",
             "simple_start", "api_metric", "once_start", "api_once_start",
             "comp_query", "comprehensive_raised", "web_main", "web_failed", "web_dataset", "web_query", "web_process", "web_returned", "single_main",
             "single_returned", "single_failed", "rotate", "heuristic_start",
             "heuristic_next", "cli_start", "cli_raised"}
  /\ retry_count \in 0..max_retries
  /\ Len(individual_results) <= n

\* ------------------------------------------------------------ claims
Last(seq) == seq[Len(seq)]

InUnit(x) == x # NaN /\ 0 <= x /\ x <= One

AllInUnit(scores) == \A m \in DOMAIN scores : InUnit(scores[m])

\* equality of two fractions; NaN equals nothing but is kept apart from 0
FracEq(a, b) ==
  /\ (a.den = 0) <=> (b.den = 0)
  /\ a.num * b.den = b.num * a.den

MeanOfPositive(scores) ==
  LET pos == {m \in DOMAIN scores : scores[m] # NaN /\ scores[m] > 0} IN
    IF pos = {} THEN Frac(0, 1) ELSE Frac(SumOver(scores, pos), Cardinality(pos))

\* the batch evaluation of evaluate_with_ragas ran in this behaviour
GroqRan ==
  rag_queried /\ (path = "web" \/ (path = "single" /\ ~individual_available))

\* C1: every metric score returned by any evaluator path (per-metric LLM
\* evaluators, the six-in-one LLM evaluator, the direct LLM batch with its
\* fallbacks), in both modes, lies in [0.0, 1.0].
C1_ScoresInUnit ==
  /\ \A k \in 1..Len(results_data) : AllInUnit(results_data[k].scores)
  /\ \A k \in 1..Len(individual_results) : AllInUnit(individual_results[k].scores)
  /\ AllInUnit(ScoresOf(individual_metrics))
  /\ AllInUnit(ScoresOf(results))

\* C2: the overall_score of a result is the mean of exactly its metric
\* scores that are > 0.0, and 0.0 when there is none, wherever an overall
\* score is computed.
C2_OverallIsMeanOfPositive ==
  \A k \in 1..Len(results_data) :
    LET r == results_data[k] IN
      /\ r.producer \in {"llm", "heuristic", "default", "simple"}
           => FracEq(r.overall_score, MeanOfPositive(r.scores))
      /\ r.producer = "individual"
           => FracEq(r.answer_correctness, MeanOfPositive(r.scores))

\* C3: an exhausted retry or any other error of one test case never aborts
\* the batch: the evaluation of n cases returns exactly n score records, the
\* k-th one written by the pass over the k-th case, and while the loop runs
\* no finished case is missing from the list.
C3_BatchNeverAborts ==
  /\ (GroqRan /\ pc \in {"evaluated", "web_returned", "single_returned", "done"})
       => Len(individual_results) = n
  /\ (GroqRan /\ pc \in {"invoke", "parse", "case_failed", "append"})
       => Len(individual_results) = i - 1
  /\ \A k \in 1..Len(individual_results) : individual_results[k].case = k

C3_Witness ==
  /\ pc = "done" /\ path = "web" /\ n >= 2
  /\ Len(individual_results) = n
  /\ individual_results[1].producer = "default"
  /\ individual_results[2].producer = "llm"

AllRateLimited == \A k \in 1..Len(outcomes) : outcomes[k] = "rate_limit"

\* C4: a call that is rate-limited on every attempt is invoked 4 times in
\* total (the first attempt plus 3 retries) before the case is treated as
\* failed.
C4_FourInvocations ==
  (pc = "case_failed" /\ AllRateLimited) => Len(outcomes) = max_retries + 1

\* C5: the backoff waits after successive rate-limit failures of one call
\* are strictly increasing and are 25s, 40s and 55s.
C5_BackoffSchedule ==
  /\ \A k \in 1..Len(sleeps) : sleeps[k] = 25 + ((k - 1) * 15)
  /\ \A k \in 1..(Len(sleeps) - 1) : sleeps[k] < sleeps[k + 1]

\* C6: a call that fails with an error that is not rate-limit-shaped is not
\* tried again and no backoff sleep follows it: every earlier attempt of the
\* case was a rate-limit failure with its own sleep, and a case whose first
\* attempt fails that way has one invocation and no sleep.
C6_NoRetryOnOtherError ==
  (outcomes # <<>> /\ Last(outcomes) = "other") =>
    /\ pc \notin {"invoke", "parse"}
    /\ Len(sleeps) = Len(outcomes) - 1
    /\ \A k \in 1..(Len(outcomes) - 1) : outcomes[k] = "rate_limit"
    /\ producer = "default"

C6_Witness ==
  /\ pc = "case_failed" /\ outcomes = <<"other">> /\ sleeps = <<>>

\* the place of a strategy in the cascade: the LLM above every fallback
Rank(p) == IF p = "llm" THEN 2 ELSE 1

SixZeros(text) ==
  /\ text.shape \in {"json", "fenced"}
  /\ DOMAIN text.obj = GroqMetrics
  /\ \A m \in GroqMetrics : text.obj[m] = Num(0)

\* C8: in the direct single-call LLM strategy a parsed reply whose six
\* metric scores are all exactly 0.0 is a failure of that strategy: the
\* heuristic supplies the scores and no clamped zero is reported.
C8_AllZeroFallsBack ==
  (pc = "append" /\ outcomes # <<>> /\ Last(outcomes) = "ok" /\ SixZeros(eval_text))
    => producer = "heuristic"

C10_MethodNamesProducer ==
  path = "web" =>
    \A k \in 1..Len(results_data) :
      results_data[k].evaluation_method = "groq" <=> results_data[k].producer = "llm"

\* the lines of the given kinds that report unit u
LinesOf(kinds, u) ==
  {k \in 1..Len(lines) : lines[k].kind \in kinds /\ lines[k].unit = u}

\* main stops the run before any work
Rejected ==
  \/ path = "web" /\ ~groq_api_key
  \/ path = "single"
       /\ (~groq_api_key \/ test_case = "invalid_json" \/ rag_mode \notin Modes)

\* the run passed the checks of main and its work has ended
WorkEnded == pc = "done" /\ ~Rejected

C12_CyclicOrder ==
  /\ path \in {"rotator", "api"} =>
       \A k \in 1..Len(served) : served[k] = models[((k - 1) % Len(models)) + 1]
  /\ path = "rotator" => current_index = Len(served) % Len(models)

C12_Witness ==
  /\ path = "rotator"
  /\ Len(served) = 2 * Len(models)
  /\ \A k \in 1..Len(models) : served[k] = models[k] /\ served[k + Len(models)] = models[k]

\* a score record came back: no exception reached the caller
Returned(r) ==
  /\ r.status \in {"ok", "regex", "fallback", "parse_failed", "error"}
  /\ InUnit(r.score)

\* C13: score extraction never raises: whatever text the LLM returned
\* (empty, prose, malformed JSON, JSON that is no object, a score that is no
\* number, digits such as 1.2.3), the metric evaluation returns a score
\* record for the metric and no exception reaches its caller.
C13_ExtractionNeverRaises ==
  /\ (path = "metric_once" /\ pc = "done") =>
       \E m \in Criteria :
         DOMAIN individual_metrics = {m} /\ Returned(individual_metrics[m])
  /\ (path = "api_once" /\ pc = "done" /\ DOMAIN results \subseteq Criteria) =>
       \E m \in Criteria : DOMAIN results = {m} /\ Returned(results[m])

C13_Witness ==
  /\ path = "api_once" /\ pc = "done" /\ raised = {}
  /\ eval_text = Reply("broken", ("score" :> JBadNum))
  /\ \E m \in Criteria : DOMAIN results = {m} /\ results[m].status = "error"

\* the fixed calibration table of the specification
CalibrationTable ==
  [relevance |-> 750, coherence |-> 720, factual_accuracy |-> 780,
   completeness |-> 700, context_usage |-> 730, professional_tone |-> 800]

\* the reply holds neither JSON nor a score pattern
NothingToExtract(text) == text.shape \in {"prose", "empty"}

\* C14: for a reply that holds neither parsable JSON nor a score pattern
\* the extracted score is the entry of the metric in the fixed calibration
\* table, in every evaluator that extracts per-metric scores.
C14_DefaultFromTable ==
  (pc = "done" /\ raised = {} /\ NothingToExtract(eval_text)) =>
    /\ path = "api_once" =>
         \A m \in DOMAIN results : results[m].score = CalibrationTable[m]
    /\ path = "metric_once" =>
         \A m \in DOMAIN individual_metrics :
           individual_metrics[m].score = CalibrationTable[m]

\* the reply is the well-formed JSON object with a score in [0, 1] under
\* key and a string under feedback
WellFormed(text, key) ==
  /\ text.shape \in {"json", "json_braces"}
  /\ DOMAIN text.obj = {key, "feedback"}
  /\ text.obj[key].t = "num" /\ InUnit(text.obj[key].v)
  /\ text.obj["feedback"].t = "str"

\* C15: round trip of the extraction: a reply that is the well-formed JSON
\* object carrying score s in [0, 1] under the expected key and feedback f
\* is extracted to exactly score s and feedback f.
C15_RoundTrip ==
  (pc = "done" /\ raised = {}) =>
    /\ path = "metric_once" =>
         \A m \in DOMAIN individual_metrics :
           WellFormed(eval_text, m) =>
             /\ individual_metrics[m].score = eval_text.obj[m].v
             /\ feedback = eval_text.obj["feedback"]
    /\ path = "api_once" =>
         \A m \in DOMAIN results \cap Criteria :
           WellFormed(eval_text, "score") =>
             /\ results[m].score = eval_text.obj["score"].v
             /\ feedback = eval_text.obj["feedback"]

\* C16: the heuristic strategy is total and calls no LLM: for every
\* question, answer and context list, the empty ones included, it returns
\* all six metric scores, each in [0, 1], without raising; the same
\* holds for the content-based scores of a batch case whose reply was unusable.
C16_HeuristicTotal ==
  /\ (path = "heuristic" /\ producer \in {"manual", "evaluate_heuristic"}) =>
       /\ DOMAIN result = GroqMetrics
       /\ AllInUnit(result)
       /\ ~llm_called
  /\ producer = "heuristic" =>
       /\ DOMAIN result = GroqMetrics
       /\ AllInUnit(result)
       /\ pc \notin {"invoke", "parse", "case_failed"}

C16_Witness ==
  /\ path = "heuristic" /\ pc = "done"
  /\ heuristic_input.question = {} /\ heuristic_input.answer = {}
  /\ heuristic_input.contexts = <<>>
  /\ producer = "evaluate_heuristic"

\* the results of the batch whose RAG query succeeded
Answered == {k \in 1..Len(results_data) : results_data[k].rag_ok}

\* C17: a RAG query that fails for one test case does not abort the batch
\* and is recorded for that case, and that case contributes nothing to the
\* aggregate scores of the summary: the means are taken over the answered
\* cases only.
C17_FailedQueryExcluded ==
  (path = "web" /\ pc \in {"web_returned", "done"} /\ rag_queried) =>
    /\ Len(results_data) = n
    /\ summary.total_cases = Cardinality(Answered)
    /\ Answered # {} =>
         /\ FracEq(summary.avg_overall_score,
                   Frac(SumOver([k \in Answered |-> Scaled(results_data[k].overall_score)],
                                Answered),
                        60 * Cardinality(Answered)))
         /\ \A m \in GroqMetrics :
              FracEq(summary.metrics[m],
                     Frac(SumOver([k \in Answered |-> results_data[k].scores[m]], Answered),
                          Cardinality(Answered)))

\* the metrics an evaluation method produces
Produced(method) ==
  IF method \in {"individual_metrics", "langchain"} THEN Criteria ELSE GroqMetrics

\* the results of the batch whose method produced metric m
Having(m) ==
  {k \in 1..Len(results_data) : m \in Produced(results_data[k].evaluation_method)}

ValueOf(k, m) ==
  IF m \in GroqMetrics THEN results_data[k].scores[m]
  ELSE results_data[k].individual[m]

ConfigError == ~groq_api_key \/ rag_mode \notin Modes

\* C19: a run of the batch evaluator or of the single-test evaluator that
\* is started without credentials or with a mode other than basic and
\* advanced makes no RAG query and no LLM call, and ends with an ERROR line.
C19_ConfigErrorBeforeWork ==
  (path \in {"web", "single"} /\ ConfigError) =>
    /\ ~rag_queried
    /\ ~llm_called
    /\ pc = "done" => \E k \in 1..Len(lines) : lines[k].kind = "ERROR"

\* C20: evaluating a metric name outside the registry produces no score
\* record for that name.
C20_UnknownMetricFails ==
  (path = "api_once" /\ pc = "done") => DOMAIN results \subseteq Criteria

\* C21: when the LLM call of a single-metric evaluation fails with a
\* provider error the evaluator returns no score for that metric: the
\* failure is the caller's to handle.
C21_ProviderErrorReachesCaller ==
  (path \in {"metric_once", "api_once"} /\ pc = "done") =>
    \A m \in raised : m \notin DOMAIN results /\ m \notin DOMAIN individual_metrics

\* the score a response carries: the "score" number of a JSON object, or
\* the digits the regular expression finds when the text is not JSON
ExtractedScore(text) ==
  IF IsJsonObject(text)
    THEN IF "score" \in DOMAIN text.obj /\ text.obj["score"].t = "num"
           THEN text.obj["score"].v ELSE None
  ELSE IF RegexNumber(text, "score").kind = "match"
    THEN RegexNumber(text, "score").v
  ELSE None

\* C22: in advanced mode every extracted score e is returned as
\* min(1, max(0, 1.1 * e)), whichever stage extracted it; in basic mode the
\* same response yields the clamped e.
C22_BoostEveryStage ==
  (path = "api_once" /\ pc = "done" /\ ExtractedScore(eval_text) # None) =>
    \A m \in DOMAIN results \cap Criteria :
      results[m].score =
        IF rag_mode = "advanced" THEN Clamp01(Boost(ExtractedScore(eval_text)))
        ELSE Clamp01(ExtractedScore(eval_text))

\* a call of evaluate_all_metrics has ended, by a return or by an exception
AllMetricsEnded ==
  \/ path = "api" /\ pc = "done"
  \/ path = "cli" /\ pc = "cli_raised"

\* C23: evaluate_all_metrics on a constructed evaluator returns a mapping
\* with exactly the six canonical metrics, each with a score, whatever the
\* LLM does, in the CLI evaluator class and in the serverless module.
C23_SixMetricsAlways ==
  AllMetricsEnded =>
    /\ pc = "done"
    /\ DOMAIN results = Criteria
    /\ \A m \in Criteria : InUnit(results[m].score)

\* the LLM raised a rate-limit error on the first 2 calls of the case and
\* answered the 3rd
TwoLimitsThenOk == outcomes = <<"rate_limit", "rate_limit", "ok">>

\* the 3rd response is one the parse accepts
UsableReply == GroqSuccess(GroqExtract(eval_text))

\* the scores are the numbers of the response, clamped as the parse does
ScoresFromReply(scores) ==
  \A m \in UpdatedKeys(GroqExtract(eval_text)) :
    scores[m] = GroqClamp(ToFloat(GroqExtract(eval_text)[m]))

\* C24: when the LLM raises a rate-limit error on the first 2 calls of a
\* test case and succeeds on the 3rd, exactly 2 backoff sleeps happen before
\* the success, the reported scores are the ones parsed from the 3rd
\* response, and no fallback is used for the case.
C24_TwoSleepsThenScores ==
  TwoLimitsThenOk =>
    /\ Len(sleeps) = 2
    /\ retry_count = 2
    /\ pc \notin {"invoke", "case_failed"}
    /\ (pc = "append" /\ UsableReply) =>
         producer = "llm" /\ ScoresFromReply(result)
    /\ (pc = "case_begin" /\ UsableReply) =>
         /\ Last(individual_results).producer = "llm"
         /\ ScoresFromReply(Last(individual_results).scores)

C24_Witness ==
  /\ TwoLimitsThenOk /\ UsableReply /\ pc = "case_begin"
  /\ Len(sleeps) = 2
  /\ Last(individual_results).producer = "llm"
  /\ Last(individual_results).scores["faithfulness"] =
       GroqClamp(ToFloat(eval_text.obj["faithfulness"]))

\* the RESULT lines printed so far, in order
ResultLines == SelectSeq(lines, LAMBDA l : l.kind = "RESULT")

\* C25: within one batch the test cases are queried and reported in the
\* order supplied: run 1 of a test case is queried before its run 2 and
\* both before any run of the next test case, and the k-th RESULT line
\* (from 0) carries the question of test case k div 2 and run (k mod 2) + 1.
C25_OrderSupplied ==
  path = "web" =>
    /\ \A k \in 1..Len(RagQueries(queries)) :
         RagQueries(queries)[k] = Query((k - 1) \div 2, ((k - 1) % 2) + 1)
    /\ Len(ResultLines) = Len(results_data)
    /\ \A k \in 1..Len(results_data) :
         /\ ResultLines[k].unit = k
         /\ results_data[k].question = (k - 1) \div 2
         /\ results_data[k].test_case_index = (k - 1) \div 2
         /\ results_data[k].run_number = ((k - 1) % 2) + 1

C25_Witness ==
  /\ path = "web" /\ pc = "done" /\ n = 4
  /\ Len(RagQueries(queries)) = 4
  /\ Len(ResultLines) = 4
  /\ results_data[3].question = 1 /\ results_data[3].run_number = 1
  /\ results_data[4].question = 1 /\ results_data[4].run_number = 2

\* the query loop of the batch has ended
QueriesEnded ==
  path \in {"web", "comprehensive"} /\ rag_queried
    /\ pc \notin {"web_query", "comp_query"}

\* C26: in a batch run a delay is inserted between every two consecutive
\* RAG queries, between the two runs of a case and between the last run of
\* a case and the first run of the next, and no delay follows the last
\* query of the batch.
C26_DelayBetweenQueries ==
  path \in {"web", "comprehensive"} =>
    /\ \A k \in 1..Len(queries) :
         queries[k].kind = (IF k % 2 = 1 THEN "query" ELSE "sleep")
    /\ QueriesEnded =>
         /\ Len(queries) = (2 * n) - 1
         /\ Last(queries).kind = "query"

C26_Witness ==
  /\ path = "web" /\ n = 4 /\ QueriesEnded
  /\ Len(queries) = 7
  /\ queries[4] = Delay /\ queries[5] = Query(1, 1)
  /\ queries[7] = Query(1, 2)

\* the models batch b was served, in order
ServedTo(b) ==
  LET pos == SelectSeq([k \in 1..Len(callers) |-> k], LAMBDA k : callers[k] = b)
  IN [j \in 1..Len(pos) |-> served[pos[j]]]

\* the cyclic list order from the first model
CyclicAt(k) == models[((k - 1) % Len(models)) + 1]

\* C27: when two batches call the rotator of the process in any
\* interleaving, the cursor stays within 0..N-1, every call returns a model
\* of the pool, and the merged sequence of returned models is the cyclic
\* list order with no position skipped or served twice.
C27_MergedCyclic ==
  path = "rotator" =>
    /\ current_index \in 0..(Len(models) - 1)
    /\ Len(callers) = Len(served)
    /\ current_index = Len(served) % Len(models)
    /\ \A k \in 1..Len(served) :
         /\ served[k] \in {models[j] : j \in 1..Len(models)}
         /\ served[k] = CyclicAt(k)

\* both batches were served, and the first one saw another order than the
\* cyclic one it would see alone
C27_Witness ==
  /\ path = "rotator"
  /\ CallsOf(1) >= 2 /\ CallsOf(2) >= 2
  /\ \E j \in 1..Len(ServedTo(1)) : ServedTo(1)[j] # CyclicAt(j)

\* the reply is a JSON object without the score key the evaluator expects
LacksKey(text, key) == text.shape = "json" /\ key \notin DOMAIN text.obj

\* C28: a response that parses as a JSON object but lacks the expected
\* score key is not a success of the first stage: the later stages find no
\* score in it either, and the result is the entry of the metric in the
\* calibration table.
C28_MissingKeyFallsThrough ==
  (pc = "done" /\ raised = {}) =>
    /\ (path = "api_once" /\ LacksKey(eval_text, "score")) =>
         \A m \in DOMAIN results \cap Criteria :
           results[m].score = CalibrationTable[m]
    /\ path = "metric_once" =>
         \A m \in DOMAIN individual_metrics :
           LacksKey(eval_text, m) => individual_metrics[m].score = CalibrationTable[m]

\* a step that is one single-metric evaluation of the serverless module
SingleMetricStep ==
  \/ path = "api_once" /\ pc = "api_once_start" /\ pc' = "done"
  \/ path = "api" /\ pc = "api_metric" /\ metric_idx' = metric_idx + 1

\* C29: a single-metric evaluation of a registered metric advances the
\* cursor of the rotator by exactly one position, whether the LLM call
\* succeeds, fails or returns malformed text, and changes no other shared
\* state; an evaluation of a name outside the registry leaves the cursor
\* where it was.
C29_CursorPlusOne ==
  [][SingleMetricStep =>
       /\ (DOMAIN results' \ DOMAIN results) \subseteq Criteria =>
            /\ current_index' = (current_index + 1) % Len(models)
            /\ served' = Append(served, models[current_index + 1])
       /\ UnknownMetric \in DOMAIN results' =>
            UNCHANGED <<current_index, served>>
       /\ UNCHANGED <<rag_mode, groq_api_key, individual_available, path>>]_vars

\* a call whose LLM invocation failed moved the cursor from the last model
\* back to the first
C29_Witness ==
  /\ path = "api_once" /\ pc = "done" /\ raised # {}
  /\ served = <<models[Len(models)]>>
  /\ current_index = 0

\* the positions of the lines of a kind
KindAt(kind) == {k \in 1..Len(lines) : lines[k].kind = kind}

\* C30: in every run of the batch evaluator the final line is SUCCESS or
\* ERROR; a SUCCESS line is the last line and is preceded by exactly one
\* SUMMARY line, which follows at least one RESULT line and is followed by
\* the PROGRESS value 100; a run that ends with an ERROR has no SUCCESS, and
\* no RESULT or SUMMARY line follows the ERROR that ended it.
C30_LineProtocol ==
  path = "web" =>
    /\ pc = "done" => Last(lines).kind \in {"SUCCESS", "ERROR"}
    /\ \A k \in KindAt("SUCCESS") :
         /\ k = Len(lines)
         /\ Cardinality(KindAt("SUMMARY")) = 1
         /\ \A j \in KindAt("SUMMARY") :
              /\ j < k
              /\ \E r \in KindAt("RESULT") : r < j
              /\ lines[j + 1] = Line("PROGRESS", 100)
    /\ (pc = "done" /\ Last(lines).kind = "ERROR") =>
         /\ KindAt("SUCCESS") = {}
         /\ KindAt("SUMMARY") = {}
         /\ \A k \in KindAt("ERROR") : \A r \in KindAt("RESULT") : r < k

\* a run of two test cases that ended with SUCCESS
C30_Witness ==
  /\ path = "web" /\ pc = "done" /\ n = 4
  /\ Last(lines).kind = "SUCCESS"
  /\ Cardinality(KindAt("RESULT")) = 4

====
